---- MODULE Spec2Model ----
(***************************************************************************)
(* Model of src/deploy_pex.py: the PEX deploy script run by the GitHub     *)
(* action.  Text values (file contents, environment values, names) are     *)
(* sequences of one-character strings, so that startswith, split,          *)
(* splitlines, strip, join and the regular-expression match are computed   *)
(* as Python computes them.                                                *)
(*                                                                         *)
(* Environment assumed by the model: the variables GitHub Actions always   *)
(* sets (GITHUB_SERVER_URL, GITHUB_REPOSITORY, GITHUB_RUN_ID, GITHUB_SHA)  *)
(* are set, the bundled dagster-cloud.pex can be executed, and the         *)
(* arguments forwarded by action.yml hold the workspace file first and no  *)
(* --build-method flag of their own.                                       *)
(***************************************************************************)
EXTENDS Integers, Sequences, FiniteSets, TLC

VARIABLES
    pc,                \* position of main: "main", "classify", "deploy_pex", "notify", "run", "return", "done"
    event_name,        \* os.getenv("GITHUB_EVENT_NAME")
    input_deployment,  \* os.getenv("INPUT_DEPLOYMENT"), None when unset
    github_ref,        \* os.getenv("GITHUB_REF", "")
    script_on_disk,    \* whether create_or_update_comment.py exists on disk
    lsb_release,       \* contents of /etc/lsb-release, Unreadable when open() raises
    workspace,         \* location names of the workspace file, Unreadable when get_locations raises
    argv,              \* sys.argv[1:]
    deployment_name,   \* main's deployment_name
    ubuntu_version,    \* main's ubuntu_version
    build_method,      \* the build_method main passes to deploy_pex
    locations,         \* deploy_pex's locations
    action,            \* the action of the notify call in progress
    idx,               \* index of the next location in notify's loop
    returncode,        \* deploy_pex's returncode
    output,            \* deploy_pex's captured output
    log,               \* the external effects of the run, in order
    exit_code,         \* the process exit code, NoExit while running
    raised,            \* TRUE when the run ended with an uncaught exception
    fb_pc,             \* fallback controller: "idle", "start", "run_docker", "done"
    fb_returncode,     \* fallback controller: exit status of the last build
    fb_output,         \* fallback controller: captured lines of the local build
    fb_log             \* fallback controller: the build invocations, in order

vars == <<pc, event_name, input_deployment, github_ref, script_on_disk,
          lsb_release, workspace, argv, deployment_name, ubuntu_version,
          build_method, locations, action, idx, returncode, output, log,
          exit_code, raised, fb_pc, fb_returncode, fb_output, fb_log>>

env_vars == <<event_name, input_deployment, github_ref, script_on_disk,
              lsb_release, workspace, argv>>

main_vars == <<pc, env_vars, deployment_name, ubuntu_version, build_method,
               locations, action, idx, returncode, output, log, exit_code,
               raised>>

fb_vars == <<fb_pc, fb_returncode, fb_output, fb_log>>

----------------------------------------------------------------------------
(* Bounds *)

MaxLocs == 2          \* most locations in a workspace file
MaxRc == 1            \* largest exit status of a subprocess
MaxOutLines == 2      \* most captured output lines of a build

----------------------------------------------------------------------------
(* Text *)

None == << "<None>" >>
Unreadable == << "<Unreadable>" >>
NoExit == -1000

Empty == << >>
ReleaseKey == <<"D", "I", "S", "T", "R", "I", "B", "_", "R", "E", "L", "E", "A", "S", "E", "=">>
SafeRelease == <<"2", "0", ".", "0", "4">>
FallbackRelease == <<"2", "2", ".", "0", "4">>
IdLine == <<"D", "I", "S", "T", "R", "I", "B", "_", "I", "D", "=", "U", "b", "u", "n", "t", "u">>
RefsPull == <<"r", "e", "f", "s", "/", "p", "u", "l", "l", "/">>
RefsHeadsMain == <<"r", "e", "f", "s", "/", "h", "e", "a", "d", "s", "/", "m", "a", "i", "n">>
MergeSuffix == <<"/", "m", "e", "r", "g", "e">>
FailureSignature == <<"N", "o", " ", "m", "a", "t", "c", "h", "i", "n", "g", " ", "d", "i", "s", "t", "r", "i", "b", "u", "t", "i", "o", "n">>
LowerSignature == <<"n", "o", " ", "m", "a", "t", "c", "h", "i", "n", "g", " ", "d", "i", "s", "t", "r", "i", "b", "u", "t", "i", "o", "n">>
ForFoo == <<" ", "f", "o", "r", " ", "f", "o", "o">>
Prod == <<"p", "r", "o", "d">>
Staging == <<"s", "t", "a", "g", "i", "n", "g">>
BranchName == <<"p", "r", "-", "7">>
Local == <<"l", "o", "c", "a", "l">>
Docker == <<"d", "o", "c", "k", "e", "r">>
Star == <<"*">>
LoadTimeout == <<"3", "6", "0", "0">>
HeartbeatTimeout == <<"6", "0", "0">>
WorkspaceFile == <<"p", "r", "o", "j", "/", "w", ".", "y", "a", "m", "l">>
PythonVersion == <<"3", ".", "8">>
GitUrl == << "<git_url>" >>
CommitHash == << "<GITHUB_SHA>" >>
NL == <<"\n">>

Digits == {"0", "1", "2", "3", "4", "5", "6", "7", "8", "9"}
Whitespace == {" ", "\n", "\r", "\t", "\f"}
LineBreaks == {"\n", "\r", "\f"}

\* str.startswith
StartsWith(s, p) == Len(s) >= Len(p) /\ SubSeq(s, 1, Len(p)) = p

\* the in operator on two strings
Contains(s, p) == \E i \in 1..(Len(s) - Len(p) + 1) : SubSeq(s, i, i + Len(p) - 1) = p

\* line.split("=", 1)[1], for a line that holds an "="
AfterFirstEq(line) ==
    LET i == CHOOSE k \in 1..Len(line) :
                 line[k] = "=" /\ \A j \in 1..(k - 1) : line[j] # "="
    IN SubSeq(line, i + 1, Len(line))

\* str.splitlines(keepends=False); "\r\n" is one line break
RECURSIVE SplitFrom(_, _, _)
SplitFrom(text, i, cur) ==
    IF i > Len(text) THEN (IF cur = Empty THEN << >> ELSE <<cur>>)
    ELSE IF text[i] \in LineBreaks
         THEN LET step == IF text[i] = "\r" /\ i < Len(text) /\ text[i + 1] = "\n"
                          THEN 2 ELSE 1
              IN <<cur>> \o SplitFrom(text, i + step, Empty)
         ELSE SplitFrom(text, i + 1, Append(cur, text[i]))

splitlines(text) == SplitFrom(text, 1, Empty)

\* "".join(lines)
RECURSIVE join(_)
join(lines) == IF lines = << >> THEN Empty ELSE Head(lines) \o join(Tail(lines))

\* str.strip()
strip(s) ==
    LET keep == {i \in 1..Len(s) : s[i] \notin Whitespace}
    IN IF keep = {} THEN Empty
       ELSE LET lo == CHOOSE i \in keep : \A j \in keep : i <= j
                hi == CHOOSE i \in keep : \A j \in keep : i >= j
            IN SubSeq(s, lo, hi)

\* os.path.dirname
dirname(path) ==
    LET slashes == {i \in 1..Len(path) : path[i] = "/"}
    IN IF slashes = {} THEN Empty
       ELSE SubSeq(path, 1, (CHOOSE i \in slashes : \A j \in slashes : i >= j) - 1)

\* bool(x) of a string or of None
Truthy(x) == x # None /\ x # Empty

----------------------------------------------------------------------------
(* Pure functions of deploy_pex.py *)

\* get_runner_ubuntu_version, after /etc/lsb-release was read
RECURSIVE FirstRelease(_)
FirstRelease(lines) ==
    IF lines = << >> THEN FallbackRelease
    ELSE IF StartsWith(Head(lines), ReleaseKey) THEN AfterFirstEq(Head(lines))
         ELSE FirstRelease(Tail(lines))

get_runner_ubuntu_version(release_info) == FirstRelease(splitlines(release_info))

\* BuildMethodFor with the test turned round: docker only for the fallback release
BuildMethodForNotFallback(version) == IF version = FallbackRelease THEN Docker ELSE Local

\* main: the build method chosen from the version
BuildMethodFor(version) == IF version = SafeRelease THEN Local ELSE Docker

\* ExitCodeFor passing the tool's status on: sys.exit(returncode)
ExitCodeVerbatim(rc) == rc

\* main: the exit status after deploy_pex returned
ExitCodeFor(rc) == IF rc # 0 THEN 1 ELSE 0

\* get_pr_number: re.match(r"refs/pull/(\d+)", github_ref)
get_pr_number(ref) ==
    IF ~StartsWith(ref, RefsPull) THEN None
    ELSE LET rest == SubSeq(ref, Len(RefsPull) + 1, Len(ref))
             n == IF \A i \in 1..Len(rest) : rest[i] \in Digits THEN Len(rest)
                  ELSE (CHOOSE i \in 1..Len(rest) :
                            rest[i] \notin Digits /\ \A j \in 1..(i - 1) : rest[j] \in Digits) - 1
         IN IF n = 0 THEN None ELSE SubSeq(rest, 1, n)

\* deploy_pex: the deployment named in the --url flag
UrlDeployment(branch_deployment_name) ==
    IF Truthy(branch_deployment_name) THEN branch_deployment_name ELSE Prod

\* TerminalAction testing returncode > 0: a build killed by a signal counts as success
TerminalActionPositive(rc) == IF rc > 0 THEN "failed" ELSE "success"

\* deploy_pex: the action of the terminal notify
TerminalAction(rc) == IF rc # 0 THEN "failed" ELSE "success"

Arg(flag, value) == [flag |-> flag, value |-> value]

\* deploy_pex: the argument list handed to run
DeployArgs(args, branch_deployment_name, method) ==
    <<Arg("", dirname(Head(args).value))>> \o Tail(args)
        \o <<Arg("--build-method", method),
             Arg("--location-name", Star),
             Arg("--location-file", Head(args).value),
             Arg("--git-url", GitUrl),
             Arg("--commit-hash", CommitHash),
             Arg("--url", UrlDeployment(branch_deployment_name)),
             Arg("--location-load-timeout", LoadTimeout),
             Arg("--agent-heartbeat-timeout", HeartbeatTimeout)>>

----------------------------------------------------------------------------
(* Inputs of a run *)

EventNames == {"pull_request", "push"}
InputDeployments == {None, Empty, Staging}
GithubRefs == {RefsPull \o <<"1", "2">> \o MergeSuffix, RefsHeadsMain,
               RefsPull \o <<"x">>, Empty}
LsbFiles == {
    IdLine \o NL \o ReleaseKey \o SafeRelease \o NL,
    IdLine \o NL \o ReleaseKey \o FallbackRelease \o NL,
    Empty,
    ReleaseKey \o SafeRelease \o <<" ">> \o NL,
    <<" ">> \o ReleaseKey \o SafeRelease \o NL,
    ReleaseKey \o FallbackRelease \o NL \o ReleaseKey \o SafeRelease \o NL,
    ReleaseKey \o SafeRelease \o <<"\f">> \o IdLine}
LocationNames == {"a", "b"}
Workspaces == UNION {[1..n -> LocationNames] : n \in 0..MaxLocs}
Argvs == {<<Arg("", WorkspaceFile), Arg("--python-version", PythonVersion)>>}
ReturnCodes == (0..MaxRc) \cup {-9}
PostCodes == {0, 1}
ResolverOutputs == {<< >>, <<NL>>, <<BranchName \o NL>>}
ToolOutputs == {<< >>, <<FailureSignature \o ForFoo \o NL>>}

----------------------------------------------------------------------------
(* The effects a run leaves behind *)

Event(kind, act, dep, loc, pr, posted, rc, args, out) ==
    [kind |-> kind, action |-> act, deployment |-> dep, location |-> loc,
     pr |-> pr, posted |-> posted, rc |-> rc, args |-> args, output |-> out]

\* run() of the branch-deployment command
ResolveEvent(rc) == Event("resolve", "", None, "", None, FALSE, rc, << >>, << >>)

\* run() of the deploy-python-executable command
ToolEvent(args, rc, out) == Event("tool", "", None, "", None, FALSE, rc, args, out)

\* one call of update_pr_comment; posted when the comment subprocess was started
NotifyEvent(act, dep, loc, pr, posted, rc) ==
    Event("notify", act, dep, loc, pr, posted, rc, << >>, << >>)

----------------------------------------------------------------------------
(* main *)

Init ==
    /\ pc = "main"
    /\ event_name \in EventNames
    \* INPUT_DEPLOYMENT is read on the full-deployment branch only
    /\ input_deployment \in IF event_name = "pull_request" THEN {None} ELSE InputDeployments
    /\ github_ref \in GithubRefs
    /\ script_on_disk \in BOOLEAN
    /\ lsb_release \in LsbFiles \cup {Unreadable}
    /\ workspace \in Workspaces \cup {Unreadable}
    /\ argv \in Argvs
    /\ deployment_name = None
    /\ ubuntu_version = None
    /\ build_method = None
    /\ locations = << >>
    /\ action = ""
    /\ idx = 1
    /\ returncode = 0
    /\ output = << >>
    /\ log = << >>
    /\ exit_code = NoExit
    /\ raised = FALSE
    /\ fb_pc = "idle"
    /\ fb_returncode = 0
    /\ fb_output = << >>
    /\ fb_log = << >>

\* sys.exit(code), or an uncaught exception (Python exits with status 1)
Exit(code, by_exception) ==
    /\ pc' = "done"
    /\ exit_code' = code
    /\ raised' = by_exception

\* ResolverFails testing returncode > 0
ResolverFailsPositive(rc) == rc > 0

\* get_branch_deployment_name: what a resolver exit status does to the run
ResolverFails(rc) == rc # 0

\* main, pull_request branch, with get_branch_deployment_name
MainBranchDeployment ==
    /\ pc = "main"
    /\ event_name = "pull_request"
    /\ \E rc \in ReturnCodes, out \in ResolverOutputs :
          /\ log' = Append(log, ResolveEvent(rc))
          /\ IF ResolverFails(rc)
             THEN /\ Exit(1, FALSE)
                  /\ UNCHANGED deployment_name
             ELSE /\ deployment_name' = strip(join(out))
                  /\ pc' = "classify"
                  /\ UNCHANGED <<exit_code, raised>>
    /\ UNCHANGED <<env_vars, ubuntu_version, build_method, locations, action,
                   idx, returncode, output, fb_vars>>

\* main, full deployment branch
MainFullDeployment ==
    /\ pc = "main"
    /\ event_name # "pull_request"
    /\ deployment_name' = IF input_deployment = None THEN Prod ELSE input_deployment
    /\ pc' = "classify"
    /\ UNCHANGED <<env_vars, ubuntu_version, build_method, locations, action,
                   idx, returncode, output, log, exit_code, raised, fb_vars>>

\* main: get_runner_ubuntu_version and the choice of the build method
Classify ==
    /\ pc = "classify"
    /\ IF lsb_release = Unreadable
       THEN /\ Exit(1, TRUE)
            /\ UNCHANGED <<ubuntu_version, build_method>>
       ELSE /\ ubuntu_version' = get_runner_ubuntu_version(lsb_release)
            /\ build_method' = BuildMethodFor(ubuntu_version')
            /\ pc' = "deploy_pex"
            /\ UNCHANGED <<exit_code, raised>>
    /\ UNCHANGED <<env_vars, deployment_name, locations, action, idx,
                   returncode, output, log, fb_vars>>

\* notify: whether the loop over the locations has anything to do
NotifyRuns(dep, locs) == dep # None /\ Len(locs) > 0

\* deploy_pex up to the notify of "pending"
DeployPexBegin ==
    /\ pc = "deploy_pex"
    /\ IF workspace = Unreadable
       THEN /\ Exit(1, TRUE)
            /\ UNCHANGED <<locations, action, idx>>
       ELSE /\ locations' = workspace
            /\ action' = "pending"
            /\ idx' = 1
            /\ pc' = IF NotifyRuns(deployment_name, workspace) THEN "notify" ELSE "run"
            /\ UNCHANGED <<exit_code, raised>>
    /\ UNCHANGED <<env_vars, deployment_name, ubuntu_version, build_method,
                   returncode, output, log, fb_vars>>

\* UPDATE_COMMENT_SCRIPT_PATH.exists: the bound method itself, not a call of it
PathExistsAttr(on_disk) == TRUE

\* update_pr_comment: whether the comment subprocess is started
StartsPost(pr_id, on_disk) == Truthy(pr_id) /\ ~(~PathExistsAttr(on_disk))

\* PostRaises with subprocess.run(check=True)
PostRaisesChecked(rc) == rc # 0

\* update_pr_comment: subprocess.run(check=False) never raises on an exit status
PostRaises(rc) == FALSE

\* AfterNotify with a retry of the deploy after the "failed" notifications
AfterNotifyRetry(act) == IF act = "success" THEN "return" ELSE "run"

\* where notify returns to
AfterNotify(act) == IF act = "pending" THEN "run" ELSE "return"

\* one iteration of notify's loop: update_pr_comment for locations[idx]
UpdatePrComment ==
    /\ pc = "notify"
    /\ idx <= Len(locations)
    /\ LET pr_id == get_pr_number(github_ref)
           posts == StartsPost(pr_id, script_on_disk)
       IN \E rc \in PostCodes :
             /\ posts \/ rc = 0
             /\ log' = Append(log, NotifyEvent(action, deployment_name, locations[idx],
                                               IF posts THEN pr_id ELSE None, posts, rc))
             /\ IF posts /\ PostRaises(rc)
                THEN /\ Exit(1, TRUE)
                     /\ UNCHANGED idx
                ELSE /\ idx' = idx + 1
                     /\ pc' = IF idx = Len(locations) THEN AfterNotify(action) ELSE "notify"
                     /\ UNCHANGED <<exit_code, raised>>
    /\ UNCHANGED <<env_vars, deployment_name, ubuntu_version, build_method,
                   locations, action, returncode, output, fb_vars>>

\* deploy_pex: run of the packaging tool and the start of the terminal notify
RunTool ==
    /\ pc = "run"
    /\ \E rc \in ReturnCodes, out \in ToolOutputs :
          /\ returncode' = rc
          /\ output' = out
          /\ log' = Append(log, ToolEvent(DeployArgs(argv, deployment_name, build_method),
                                          rc, out))
          /\ action' = TerminalAction(rc)
    /\ idx' = 1
    /\ pc' = IF NotifyRuns(deployment_name, locations) THEN "notify" ELSE "return"
    /\ UNCHANGED <<env_vars, deployment_name, ubuntu_version, build_method,
                   locations, exit_code, raised, fb_vars>>

\* main after deploy_pex returned
MainExit ==
    /\ pc = "return"
    /\ Exit(ExitCodeFor(returncode), FALSE)
    /\ UNCHANGED <<env_vars, deployment_name, ubuntu_version, build_method,
                   locations, action, idx, returncode, output, log, fb_vars>>

Next ==
    \/ MainBranchDeployment
    \/ MainFullDeployment
    \/ Classify
    \/ DeployPexBegin
    \/ UpdatePrComment
    \/ RunTool
    \/ MainExit

Spec == Init /\ [][Next]_vars

----------------------------------------------------------------------------
(* The docker fallback controller (the second entry point of the action)   *)

FbArgs == <<Arg("", dirname(WorkspaceFile)), Arg("--build-method", Docker)>>
BuildSdists == Arg("--build-sdists", Empty)
BuildLines == {<<"o", "k">> \o NL,
               FailureSignature \o ForFoo \o NL,
               <<"E", ":", " ">> \o FailureSignature \o NL,
               LowerSignature \o NL}
BuildOutputs == UNION {[1..n -> BuildLines] : n \in 0..MaxOutLines}

FbEvent(kind, args, rc) == [kind |-> kind, args |-> args, rc |-> rc]

\* the failure signature is looked for line by line
HasFailureSignature(out) == \E i \in 1..Len(out) : Contains(out[i], FailureSignature)

\* RUN_LOCAL --(exit!=0, failure signature present)--> RUN_DOCKER
NeedsFallback(rc, out) == rc # 0 /\ HasFailureSignature(out)

\* ContainerArgs forwarding the arguments unchanged
ContainerArgsUnchanged(args) == args

\* the arguments of the container re-invocation
ContainerArgs(args) == Append(args, BuildSdists)

FbInit ==
    /\ pc = "idle"
    /\ event_name = "push"
    /\ input_deployment = None
    /\ github_ref = Empty
    /\ script_on_disk = TRUE
    /\ lsb_release = Empty
    /\ workspace = << >>
    /\ argv = <<Arg("", WorkspaceFile)>>
    /\ deployment_name = None
    /\ ubuntu_version = None
    /\ build_method = None
    /\ locations = << >>
    /\ action = ""
    /\ idx = 1
    /\ returncode = 0
    /\ output = << >>
    /\ log = << >>
    /\ exit_code = NoExit
    /\ raised = FALSE
    /\ fb_pc = "start"
    /\ fb_returncode = 0
    /\ fb_output = << >>
    /\ fb_log = << >>

\* START -> RUN_LOCAL -> DONE or RUN_DOCKER
FbRunLocal ==
    /\ fb_pc = "start"
    /\ \E rc \in ReturnCodes, out \in BuildOutputs :
          /\ fb_returncode' = rc
          /\ fb_output' = out
          /\ fb_log' = Append(fb_log, FbEvent("local", FbArgs, rc))
          /\ fb_pc' = IF NeedsFallback(rc, out) THEN "run_docker" ELSE "done"
    /\ UNCHANGED main_vars

\* RUN_DOCKER --(any exit)--> DONE
FbRunDocker ==
    /\ fb_pc = "run_docker"
    /\ \E rc \in ReturnCodes :
          /\ fb_returncode' = rc
          /\ fb_log' = Append(fb_log, FbEvent("container", ContainerArgs(FbArgs), rc))
    /\ fb_pc' = "done"
    /\ UNCHANGED <<main_vars, fb_output>>

FbNext == FbRunLocal \/ FbRunDocker

SpecFallback == FbInit /\ [][FbNext]_vars

----------------------------------------------------------------------------
(* Reading the log *)

Events(kind) == SelectSeq(log, LAMBDA e : e.kind = kind)
Notifications(act) == SelectSeq(log, LAMBDA e : e.kind = "notify" /\ e.action = act)
DeployEvents == SelectSeq(log, LAMBDA e : e.kind # "resolve")
FlagValues(args, flag) ==
    LET sel == SelectSeq(args, LAMBDA a : a.flag = flag)
    IN [i \in 1..Len(sel) |-> sel[i].value]
ToolRan == Len(Events("tool")) > 0
ResolverFailed == \E i \in 1..Len(log) : log[i].kind = "resolve" /\ log[i].rc # 0
FbContainerRuns == SelectSeq(fb_log, LAMBDA e : e.kind = "container")

\* the text holds a line that is exactly key \o value, and no earlier line
\* begins with key
LineStarts(text) == {i \in 1..Len(text) : i = 1 \/ text[i - 1] \in LineBreaks}
KeyAt(text, i, key) ==
    i + Len(key) - 1 <= Len(text) /\ SubSeq(text, i, i + Len(key) - 1) = key
FirstKeyedLineIs(text, key, value) ==
    \E i \in LineStarts(text) :
        /\ KeyAt(text, i, key \o value)
        /\ LET e == i + Len(key) + Len(value)
           IN e > Len(text) \/ text[e] \in LineBreaks
        /\ \A j \in LineStarts(text) : j < i => ~KeyAt(text, j, key)

----------------------------------------------------------------------------
(* Claims *)

\* C1: whenever the packaging tool is invoked, its arguments hold exactly one
\* --build-method flag; the flag is local if and only if the first
\* DISTRIB_RELEASE line of /etc/lsb-release has the value "20.04" exactly and
\* docker otherwise; and the build method, once chosen, never changes.
C1_BuildMethodFlag ==
    /\ [](\A i \in 1..Len(log) :
             log[i].kind = "tool" =>
                LET flags == FlagValues(log[i].args, "--build-method")
                IN /\ Len(flags) = 1
                   /\ flags[1] \in {Local, Docker}
                   /\ flags[1] = build_method
                   /\ flags[1] = Local <=>
                          FirstKeyedLineIs(lsb_release, ReleaseKey, SafeRelease))
    /\ [][build_method # None => build_method' = build_method]_vars

\* C1 witness: a finished run that deployed with --build-method=local
C1_Witness ==
    /\ pc = "done"
    /\ \E i \in 1..Len(log) :
          log[i].kind = "tool" /\ FlagValues(log[i].args, "--build-method") = <<Local>>

\* C2: the calls of update_pr_comment and the tool invocation come in the
\* order pending for each location, one tool invocation, then for each
\* location the terminal action, which is "failed" when the tool's exit
\* status is non-zero and "success" when it is zero; a run that returns from
\* deploy_pex has made all of them.
C2_NotifyOrder ==
    LET d == DeployEvents
        n == Len(locations)
    IN /\ Len(d) <= 2 * n + 1
       /\ \A k \in 1..Len(d) :
             /\ k <= n => /\ d[k].kind = "notify"
                          /\ d[k].action = "pending"
                          /\ d[k].location = locations[k]
             /\ k = n + 1 => d[k].kind = "tool"
             /\ k > n + 1 => /\ d[k].kind = "notify"
                             /\ d[k].action = IF d[n + 1].rc = 0 THEN "success" ELSE "failed"
                             /\ d[k].location = locations[k - n - 1]
       /\ (pc \in {"return", "done"} /\ ToolRan) => Len(d) = 2 * n + 1

\* C2 witness: a finished run over two locations whose tool was killed by a signal
C2_Witness ==
    /\ pc = "done"
    /\ Len(locations) = 2
    /\ Len(Notifications("pending")) = 2
    /\ Len(Notifications("failed")) = 2
    /\ \E i \in 1..Len(log) : log[i].kind = "tool" /\ log[i].rc < 0

\* C3: a finished run has exit status 0 or 1: 0 when the deploy invocation
\* exited 0, 1 when it exited with any other status, and 1 when the
\* branch-deployment name could not be resolved.
C3_ExitCodes ==
    pc = "done" =>
       /\ exit_code \in {0, 1}
       /\ ResolverFailed => exit_code = 1
       /\ \A i \in 1..Len(log) :
             log[i].kind = "tool" => exit_code = (IF log[i].rc = 0 THEN 0 ELSE 1)

\* C3 witness: the tool was killed by a signal and the run exits with status 1
C3_Witness ==
    /\ pc = "done"
    /\ exit_code = 1
    /\ \E i \in 1..Len(log) : log[i].kind = "tool" /\ log[i].rc < 0

\* C4: once the branch-deployment resolver has exited non-zero, the run is
\* over with exit status 1, and nothing else has happened: no notification,
\* no classification of the OS release, no tool invocation.
C4_ResolverFailureIsImmediate ==
    ResolverFailed =>
       /\ pc = "done"
       /\ exit_code = 1
       /\ Len(log) = 1
       /\ ubuntu_version = None
       /\ build_method = None
       /\ deployment_name = None

\* C4 witness: a pull-request run whose resolver was killed by a signal
C4_Witness ==
    /\ event_name = "pull_request"
    /\ pc = "done"
    /\ \E i \in 1..Len(log) : log[i].kind = "resolve" /\ log[i].rc < 0

\* C5: the target is resolved at most once, and every posted notification
\* names the target that the --url flag of the tool invocation names
\* (an empty resolved name included).
C5_SameTargetEverywhere ==
    /\ Len(Events("resolve")) <= 1
    /\ \A i, j \in 1..Len(log) :
          (log[i].kind = "notify" /\ log[i].posted /\ log[j].kind = "tool")
             => FlagValues(log[j].args, "--url") = <<log[i].deployment>>
    /\ \A i, j \in 1..Len(log) :
          (log[i].kind = "notify" /\ log[j].kind = "notify")
             => log[i].deployment = log[j].deployment

C7_NoPostWithoutMeans ==
    \A i \in 1..Len(log) :
       (log[i].kind = "notify" /\ log[i].posted) =>
          /\ log[i].deployment # None
          /\ event_name = "pull_request"
          /\ get_pr_number(github_ref) # None
          /\ script_on_disk

\* C8: no outcome of the comment posts ends the run: an uncaught exception
\* comes only from an unreadable input file, and a run that resolved its
\* target and read its files has attempted every notification, invoked the
\* tool once, and exits with the status the tool's exit status alone decides.
C8_PostFailuresSwallowed ==
    /\ raised => (lsb_release = Unreadable \/ workspace = Unreadable)
    /\ (pc = "done" /\ ~raised /\ ~ResolverFailed) =>
          /\ Len(Events("tool")) = 1
          /\ Len(Notifications("pending")) = Len(locations)
          /\ Len(Notifications("success")) + Len(Notifications("failed")) = Len(locations)
          /\ exit_code = (IF Events("tool")[1].rc = 0 THEN 0 ELSE 1)

\* C8 witness: a finished run that deployed with exit status 0 although a
\* pending post and a terminal post both failed
C8_Witness ==
    /\ pc = "done"
    /\ exit_code = 0
    /\ \E i, j \in 1..Len(log) :
          /\ log[i].kind = "notify" /\ log[i].posted /\ log[i].rc # 0
          /\ log[i].action = "pending"
          /\ log[j].kind = "notify" /\ log[j].posted /\ log[j].rc # 0
          /\ log[j].action = "success"

\* C9: an unreadable /etc/lsb-release never ends the run: once past the
\* classification, the run has not raised and the build method is docker.
C9_UnreadableReleaseDefaultsToDocker ==
    (lsb_release = Unreadable /\ pc \notin {"main", "classify"} /\ ~ResolverFailed)
       => (~raised /\ build_method = Docker)

\* C10: the tool is invoked at most once, and once it has been invoked the
\* only further effects are the terminal notifications.
C10_NoRetry ==
    /\ [](Len(Events("tool")) <= 1)
    /\ [][ToolRan =>
            \/ log' = log
            \/ /\ Len(log') = Len(log) + 1
               /\ SubSeq(log', 1, Len(log)) = log
               /\ log'[Len(log')].kind = "notify"
               /\ log'[Len(log')].action \in {"success", "failed"}]_vars

\* C10 witness: a finished run whose tool exited 0 with a
\* "No matching distribution" line in its output
C10_Witness ==
    /\ pc = "done"
    /\ \E i \in 1..Len(log) :
          /\ log[i].kind = "tool"
          /\ log[i].rc = 0
          /\ HasFailureSignature(log[i].output)

====
